---- MODULE Spec2Model ----
(***************************************************************************)
(* SNOW LIWA booking site: the booking store (bookings.xlsx), the Ziina    *)
(* payment gateway client, the reconciliation of booking status against    *)
(* the provider, the booking form and the dashboard's manual override.     *)
(*                                                                         *)
(* `store' is the content of bookings.xlsx (one record per row, a text     *)
(* cell that is empty holds "").  Every handler reads the file with        *)
(* load_bookings, works on the DataFrame it got, and writes the whole      *)
(* frame back with save_bookings.                                          *)
(***************************************************************************)
EXTENDS Integers, Sequences, FiniteSets, TLC

VARIABLES store, today, issued

vars == <<store, today, issued>>

(***************************************************************************)
(* Bounds of the model.                                                    *)
(***************************************************************************)
MaxBookings == 2   \* rows the store may hold
MaxDay == 2        \* calendar days the clock runs through
MaxRows == 3       \* rows of the record sets drawn for get_next_booking_id
MaxForm == 3       \* rows the store may hold when only the booking form is used

(***************************************************************************)
(* Program constants.                                                      *)
(***************************************************************************)
TICKET_PRICE == 175

\* The ticket counts the form accepts.
MIN_TICKETS == 1

MAX_TICKETS == 20

\* The ticket counts drawn for a submission: the smallest and the largest.
TicketChoices == {MIN_TICKETS, MAX_TICKETS}

ZIINA_ACCESS_TOKEN == "FAKE_ACCESS_TOKEN"

(***************************************************************************)
(* Python / pandas values.                                                 *)
(***************************************************************************)
NaN == "<NaN>"          \* the float NaN pandas reads from an empty cell
NoneVal == "<None>"     \* Python None as a dict value / dict.get result
Missing == "<missing>"  \* a key the JSON object does not carry

\* str(v): NaN prints as "nan".
Str(v) == IF v = NaN THEN "nan" ELSE v

\* bool(v) of a cell or of a dict.get result: None and "" are falsy, NaN is truthy.
IsTruthy(v) == v # "" /\ v # NoneVal

\* A JSON object of the provider, restricted to the keys the program reads.
EmptyDict ==
    [id |-> Missing, redirect_url |-> Missing, status |-> Missing, message |-> Missing]

\* The body of an error response: an object without id, redirect_url and status.
ErrorBody == [EmptyDict EXCEPT !.message = "error"]

\* dict.get(key, default)
DictGet(d, key, default) == IF d[key] = Missing THEN default ELSE d[key]

\* The value a gateway call returns: None, or the decoded JSON object.
PyNone == [isNone |-> TRUE, json |-> EmptyDict]

PyJson(j) == [isNone |-> FALSE, json |-> j]

\* bool(r) of a gateway result: None and {} are falsy.
ResultTruthy(r) == ~r.isNone /\ r.json # EmptyDict

(***************************************************************************)
(* Booking ids: "SL-" + YYYYMMDD + "-" + suffix.  The date part is a day   *)
(* number, the suffix a sequence of characters (the digits 0..9; a larger  *)
(* number stands for a non-digit character).                               *)
(***************************************************************************)
RECURSIVE DigitsOf(_)
DigitsOf(n) == IF n < 10 THEN <<n>> ELSE Append(DigitsOf(n \div 10), n % 10)

RECURSIVE ZeroPad(_, _)
ZeroPad(s, width) == IF Len(s) >= width THEN s ELSE ZeroPad(<<0>> \o s, width)

\* f"{seq:03d}"
Format03(n) == ZeroPad(DigitsOf(n), 3)

IsNumeric(s) == Len(s) > 0 /\ \A i \in 1..Len(s) : s[i] \in 0..9

RECURSIVE DigitsValue(_)
DigitsValue(s) ==
    IF Len(s) = 0 THEN 0
    ELSE 10 * DigitsValue(SubSeq(s, 1, Len(s) - 1)) + s[Len(s)]

BookingId(date, suffix) == [date |-> date, suffix |-> suffix]

\* The value of a booking id variable that holds no id (None).
NoBookingId == BookingId(0, <<>>)

\* df[df["booking_id"].astype(str).str.startswith(prefix)]
RECURSIVE SelectToday(_, _)
SelectToday(df, day) ==
    IF Len(df) = 0 THEN <<>>
    ELSE LET rest == SelectToday(SubSeq(df, 1, Len(df) - 1), day)
             r == df[Len(df)]
         IN IF r.booking_id.date = day THEN Append(rest, r) ELSE rest

\* Variant: the sequence number of the last id is reused, not incremented.
get_next_booking_id_reuse(df, day) ==
    LET todays == SelectToday(df, day)
        last == todays[Len(todays)].booking_id
        seq == IF Len(todays) = 0 THEN 1
               ELSE IF IsNumeric(last.suffix) THEN DigitsValue(last.suffix)
               ELSE Len(todays) + 1
    IN BookingId(day, Format03(seq))

\* Variant: the last row of the whole frame is taken, whatever its date.
get_next_booking_id_anyday(df, day) ==
    LET last == df[Len(df)].booking_id
        seq == IF Len(df) = 0 THEN 1
               ELSE IF IsNumeric(last.suffix) THEN DigitsValue(last.suffix) + 1
               ELSE Len(df) + 1
    IN BookingId(day, Format03(seq))

\* Variant: the fallback counts the rows of the whole frame.
get_next_booking_id_lenall(df, day) ==
    LET todays == SelectToday(df, day)
        last == todays[Len(todays)].booking_id
        seq == IF Len(todays) = 0 THEN 1
               ELSE IF IsNumeric(last.suffix) THEN DigitsValue(last.suffix) + 1
               ELSE Len(df) + 1
    IN BookingId(day, Format03(seq))

\* Variant: the fallback is the number of today's rows, without the one added.
get_next_booking_id_count(df, day) ==
    LET todays == SelectToday(df, day)
        last == todays[Len(todays)].booking_id
        seq == IF Len(todays) = 0 THEN 1
               ELSE IF IsNumeric(last.suffix) THEN DigitsValue(last.suffix) + 1
               ELSE Len(todays)
    IN BookingId(day, Format03(seq))

get_next_booking_id(df, day) ==
    LET todays == SelectToday(df, day)
        last == todays[Len(todays)].booking_id
        seq == IF Len(todays) = 0 THEN 1
               ELSE IF IsNumeric(last.suffix) THEN DigitsValue(last.suffix) + 1
               ELSE Len(todays) + 1
    IN BookingId(day, Format03(seq))

(***************************************************************************)
(* The store file.                                                         *)
(***************************************************************************)
\* The columns of a store that ensure_data_file creates.
COLUMNS ==
    << "booking_id", "created_at", "name", "phone", "tickets", "ticket_price",
       "total_amount", "status", "payment_intent_id", "payment_status",
       "redirect_url", "notes" >>

\* What can be found at the path of the bookings file: nothing, a workbook
\* with a header row and data rows, or a file that is not a readable workbook.
NoFile == [kind |-> "absent", columns |-> <<>>, rows |-> <<>>]

Workbook(columns, rows) == [kind |-> "workbook", columns |-> columns, rows |-> rows]

Garbage == [kind |-> "garbage", columns |-> <<>>, rows |-> <<>>]

\* Variant: the file is written anew on every call.
ensure_data_file_truncate(disk) == Workbook(COLUMNS, <<>>)

\* Variant: a file that is not a workbook is replaced by an empty store.
ensure_data_file_recreate(disk) ==
    IF disk.kind # "workbook" THEN Workbook(COLUMNS, <<>>) ELSE disk

\* ensure_data_file: a missing file is created as an empty workbook with the
\* twelve columns; whatever is_file() finds is left alone.
ensure_data_file(disk) ==
    IF disk.kind = "absent" THEN Workbook(COLUMNS, <<>>) ELSE disk

\* pd.read_excel: an empty cell is read as NaN.
ReadCell(v) == IF v = "" THEN NaN ELSE v

\* The columns that can hold an empty text cell.
ReadRow(r) ==
    [r EXCEPT !.payment_intent_id = ReadCell(@), !.payment_status = ReadCell(@),
              !.redirect_url = ReadCell(@), !.notes = ReadCell(@)]

\* The outcome of pd.read_excel when the reader raises (nothing catches it).
ReadRaised == [raised |-> TRUE, columns |-> <<>>, rows |-> <<>>]

\* Variant: a file the reader cannot read yields an empty frame.
read_excel_swallow(disk) ==
    IF disk.kind = "workbook"
    THEN [raised |-> FALSE, columns |-> disk.columns,
          rows |-> [i \in 1..Len(disk.rows) |-> ReadRow(disk.rows[i])]]
    ELSE [raised |-> FALSE, columns |-> COLUMNS, rows |-> <<>>]

\* pd.read_excel(BOOKINGS_FILE): the frame, or the exception of the reader.
read_excel(disk) ==
    IF disk.kind = "workbook"
    THEN [raised |-> FALSE, columns |-> disk.columns,
          rows |-> [i \in 1..Len(disk.rows) |-> ReadRow(disk.rows[i])]]
    ELSE ReadRaised

\* load_bookings against whatever is on disk: the disk afterwards and the
\* outcome of the read.
load_bookings_from(disk) ==
    LET d == ensure_data_file(disk) IN [disk |-> d, df |-> read_excel(d)]

\* load_bookings when the file is a workbook of the program with the rows
\* `file': the rows of the frame.
load_bookings(file) == load_bookings_from(Workbook(COLUMNS, file)).df.rows

\* Variant: a missing value is written as the text "nan".
WriteCell_nan(v) == IF v = NaN \/ v = NoneVal THEN "nan" ELSE v

\* DataFrame.to_excel: NaN and None are written as empty cells.
WriteCell(v) == IF v = NaN \/ v = NoneVal THEN "" ELSE v

WriteRow(r) ==
    [r EXCEPT !.payment_intent_id = WriteCell(@), !.payment_status = WriteCell(@),
              !.redirect_url = WriteCell(@), !.notes = WriteCell(@)]

save_bookings(df) == [i \in 1..Len(df) |-> WriteRow(df[i])]

(***************************************************************************)
(* Ziina gateway.  An HTTP exchange ends in an exception (raised), or in a *)
(* response with a status code and a JSON body.                            *)
(***************************************************************************)
PiName == <<"pi_1", "pi_2", "pi_3", "pi_4", "pi_5", "pi_6">>

IssuedIds == {PiName[k] : k \in 1..issued}

RedirectUrl == "https://pay.ziina.com/payment_intent"

HttpRaised == [raised |-> TRUE, code |-> 0, json |-> EmptyDict]

HttpResponse(code, body) == [raised |-> FALSE, code |-> code, json |-> body]

has_ziina_configured ==
    ZIINA_ACCESS_TOKEN # "" /\ ZIINA_ACCESS_TOKEN # "PUT_YOUR_ZIINA_ACCESS_TOKEN_IN_SECRETS"

\* Variant: the HTTP status code is not looked at.
create_payment_intent_anycode(amount_aed, booking_id, customer_name, http) ==
    IF ~has_ziina_configured THEN PyNone
    ELSE IF http.raised THEN PyNone
    ELSE PyJson(http.json)

create_payment_intent(amount_aed, booking_id, customer_name, http) ==
    IF ~has_ziina_configured THEN PyNone
    ELSE IF http.raised THEN PyNone
    ELSE IF http.code >= 400 THEN PyNone
    ELSE PyJson(http.json)

\* Variant: the status code 400 itself is let through.
get_payment_intent_above400(pi_id, http) ==
    IF ~has_ziina_configured THEN PyNone
    ELSE IF http.raised THEN PyNone
    ELSE IF http.code > 400 THEN PyNone
    ELSE PyJson(http.json)

get_payment_intent(pi_id, http) ==
    IF ~has_ziina_configured THEN PyNone
    ELSE IF http.raised THEN PyNone
    ELSE IF http.code >= 400 THEN PyNone
    ELSE PyJson(http.json)

\* A call of the gateway against a provider that would end the k-th request of
\* the call in answers[k]: what the call returns and how many requests it
\* issued.  Both functions hold one requests.post / requests.get and no loop.
create_payment_intent_call(amount_aed, booking_id, customer_name, answers) ==
    IF ~has_ziina_configured THEN [returned |-> PyNone, requests |-> 0]
    ELSE [returned |-> create_payment_intent(amount_aed, booking_id, customer_name,
                                             answers[1]),
          requests |-> 1]

get_payment_intent_call(pi_id, answers) ==
    IF ~has_ziina_configured THEN [returned |-> PyNone, requests |-> 0]
    ELSE [returned |-> get_payment_intent(pi_id, answers[1]), requests |-> 1]

\* What the provider may answer to POST /payment_intent; a created intent gets
\* the next unused id.
CreateBodies(newId) ==
    { [EmptyDict EXCEPT !.id = newId, !.redirect_url = RedirectUrl,
                        !.status = "requires_payment_instrument"],
      [EmptyDict EXCEPT !.id = newId, !.redirect_url = RedirectUrl,
                        !.status = "completed"],
      [EmptyDict EXCEPT !.redirect_url = RedirectUrl,
                        !.status = "requires_payment_instrument"],
      EmptyDict }

CreateOutcomes(newId) ==
    {HttpRaised, HttpResponse(500, ErrorBody)}
        \cup {HttpResponse(200, b) : b \in CreateBodies(newId)}

RemoteStatuses == {"completed", "failed", "canceled", "pending"}

\* What the provider may answer to GET /payment_intent/{id}: an id it never
\* issued is answered 404.
GetOutcomes(pi_id) ==
    IF pi_id \in IssuedIds
    THEN {HttpRaised, HttpResponse(500, ErrorBody)}
            \cup {HttpResponse(200, [EmptyDict EXCEPT !.id = pi_id,
                                                      !.redirect_url = RedirectUrl,
                                                      !.status = s]) :
                     s \in RemoteStatuses \cup {Missing}}
    ELSE {HttpResponse(404, ErrorBody)}

NotFetched == [raised |-> FALSE, code |-> -1, json |-> EmptyDict]

(***************************************************************************)
(* Reconciliation.                                                         *)
(***************************************************************************)
\* pi_id = str(row.get("payment_intent_id") or "").strip()
RowPiId(row) ==
    IF IsTruthy(row.payment_intent_id) THEN Str(row.payment_intent_id) ELSE ""

\* Variant: a remote status that is neither completed, failed nor canceled
\* puts the booking back to pending.
SyncRow_reset(row, http) ==
    LET pi_id == RowPiId(row)
        pi == get_payment_intent(pi_id, http)
        status == DictGet(pi.json, "status", NoneVal)
    IN IF pi_id = "" THEN row
       ELSE IF ~ResultTruthy(pi) THEN row
       ELSE IF ~IsTruthy(status) THEN row
       ELSE IF status = "completed"
            THEN [row EXCEPT !.payment_status = status, !.status = "paid"]
       ELSE IF status \in {"failed", "canceled"}
            THEN [row EXCEPT !.payment_status = status, !.status = "cancelled"]
       ELSE [row EXCEPT !.payment_status = status, !.status = "pending"]

\* Variant: the remote status failed is not mapped.
SyncRow_nofailed(row, http) ==
    LET pi_id == RowPiId(row)
        pi == get_payment_intent(pi_id, http)
        status == DictGet(pi.json, "status", NoneVal)
    IN IF pi_id = "" THEN row
       ELSE IF ~ResultTruthy(pi) THEN row
       ELSE IF ~IsTruthy(status) THEN row
       ELSE IF status = "completed"
            THEN [row EXCEPT !.payment_status = status, !.status = "paid"]
       ELSE IF status \in {"canceled"}
            THEN [row EXCEPT !.payment_status = status, !.status = "cancelled"]
       ELSE [row EXCEPT !.payment_status = status]

\* Body of the loop of sync_payments_from_ziina for one row, given the HTTP
\* exchange its fetch ends in: the row afterwards.
SyncRow(row, http) ==
    LET pi_id == RowPiId(row)
        pi == get_payment_intent(pi_id, http)
        status == DictGet(pi.json, "status", NoneVal)
    IN IF pi_id = "" THEN row
       ELSE IF ~ResultTruthy(pi) THEN row
       ELSE IF ~IsTruthy(status) THEN row
       ELSE IF status = "completed"
            THEN [row EXCEPT !.payment_status = status, !.status = "paid"]
       ELSE IF status \in {"failed", "canceled"}
            THEN [row EXCEPT !.payment_status = status, !.status = "cancelled"]
       ELSE [row EXCEPT !.payment_status = status]

\* Whether the loop body sets `updated' for the row.
RowSetsUpdated(row, http) ==
    LET pi_id == RowPiId(row)
        pi == get_payment_intent(pi_id, http)
        status == DictGet(pi.json, "status", NoneVal)
    IN /\ pi_id # ""
       /\ ResultTruthy(pi)
       /\ status \in {"completed", "failed", "canceled"}

\* sync_payments_from_ziina(df): the frame it returns and the file afterwards.
SyncedFrame(df, https) == [i \in 1..Len(df) |-> SyncRow(df[i], https[i])]

SyncedFile(file, df, https) ==
    IF ~has_ziina_configured THEN file
    ELSE IF \E i \in 1..Len(df) : RowSetsUpdated(df[i], https[i])
         THEN save_bookings(SyncedFrame(df, https))
         ELSE file

\* The exchange the fetch for a row may end in: a row without a payment
\* reference is not fetched.
RowExchanges(row) ==
    IF RowPiId(row) = "" THEN {NotFetched} ELSE GetOutcomes(RowPiId(row))

\* The exchanges a run over df may see, one per row.
RECURSIVE SyncExchanges(_)
SyncExchanges(df) ==
    IF Len(df) = 0 THEN {<<>>}
    ELSE {Append(h, x) : h \in SyncExchanges(SubSeq(df, 1, Len(df) - 1)),
                         x \in RowExchanges(df[Len(df)])}

(***************************************************************************)
(* Handlers.                                                               *)
(***************************************************************************)
Init ==
    /\ store = <<>>
    /\ today = 1
    /\ issued = 0

\* The calendar date changes.
Tick ==
    /\ today < MaxDay
    /\ today' = today + 1
    /\ UNCHANGED <<store, issued>>

\* Variant: the total is the price of one ticket.
NewRow_flat(booking_id, name, phone, tickets, notes, pi_json) ==
    LET ok == ResultTruthy(pi_json)
    IN [ booking_id |-> booking_id,
         created_at |-> booking_id.date,
         name |-> name,
         phone |-> phone,
         tickets |-> tickets,
         ticket_price |-> TICKET_PRICE,
         total_amount |-> TICKET_PRICE,
         status |-> "pending",
         payment_intent_id |-> IF ok THEN DictGet(pi_json.json, "id", "") ELSE "",
         payment_status |->
             IF ok THEN DictGet(pi_json.json, "status", "requires_payment_instrument")
             ELSE "error",
         redirect_url |-> IF ok THEN DictGet(pi_json.json, "redirect_url", "") ELSE "",
         notes |-> notes ]

\* Variant: the payment reference is read from the key redirect_url.
NewRow_wrongkey(booking_id, name, phone, tickets, notes, pi_json) ==
    LET total_amount == tickets * TICKET_PRICE
        ok == ResultTruthy(pi_json)
    IN [ booking_id |-> booking_id,
         created_at |-> booking_id.date,
         name |-> name,
         phone |-> phone,
         tickets |-> tickets,
         ticket_price |-> TICKET_PRICE,
         total_amount |-> total_amount,
         status |-> "pending",
         payment_intent_id |->
             IF ok THEN DictGet(pi_json.json, "redirect_url", "") ELSE "",
         payment_status |->
             IF ok THEN DictGet(pi_json.json, "status", "requires_payment_instrument")
             ELSE "error",
         redirect_url |-> IF ok THEN DictGet(pi_json.json, "redirect_url", "") ELSE "",
         notes |-> notes ]

\* Variant: a create response that reports completed makes the booking paid.
NewRow_paid(booking_id, name, phone, tickets, notes, pi_json) ==
    LET total_amount == tickets * TICKET_PRICE
        ok == ResultTruthy(pi_json)
    IN [ booking_id |-> booking_id,
         created_at |-> booking_id.date,
         name |-> name,
         phone |-> phone,
         tickets |-> tickets,
         ticket_price |-> TICKET_PRICE,
         total_amount |-> total_amount,
         status |-> IF ok /\ pi_json.json.status = "completed" THEN "paid" ELSE "pending",
         payment_intent_id |-> IF ok THEN DictGet(pi_json.json, "id", "") ELSE "",
         payment_status |->
             IF ok THEN DictGet(pi_json.json, "status", "requires_payment_instrument")
             ELSE "error",
         redirect_url |-> IF ok THEN DictGet(pi_json.json, "redirect_url", "") ELSE "",
         notes |-> notes ]

\* The row render_booking_form builds from the form and the gateway result.
NewRow(booking_id, name, phone, tickets, notes, pi_json) ==
    LET total_amount == tickets * TICKET_PRICE
        ok == ResultTruthy(pi_json)
    IN [ booking_id |-> booking_id,
         created_at |-> booking_id.date,
         name |-> name,
         phone |-> phone,
         tickets |-> tickets,
         ticket_price |-> TICKET_PRICE,
         total_amount |-> total_amount,
         status |-> "pending",
         payment_intent_id |-> IF ok THEN DictGet(pi_json.json, "id", "") ELSE "",
         payment_status |->
             IF ok THEN DictGet(pi_json.json, "status", "requires_payment_instrument")
             ELSE "error",
         redirect_url |-> IF ok THEN DictGet(pi_json.json, "redirect_url", "") ELSE "",
         notes |-> notes ]

\* Variant: the frame that is saved holds the new row only.
SubmittedFile_onlynew(file, day, name, phone, tickets, notes, http) ==
    LET df == load_bookings(file)
        booking_id == get_next_booking_id(df, day)
        pi_json == create_payment_intent(tickets * TICKET_PRICE, booking_id, name, http)
    IN save_bookings(<<NewRow(booking_id, name, phone, tickets, notes, pi_json)>>)

\* render_booking_form with the form submitted and both fields filled in:
\* the file afterwards.
SubmittedFile(file, day, name, phone, tickets, notes, http) ==
    LET df == load_bookings(file)
        booking_id == get_next_booking_id(df, day)
        pi_json == create_payment_intent(tickets * TICKET_PRICE, booking_id, name, http)
    IN save_bookings(Append(df, NewRow(booking_id, name, phone, tickets, notes, pi_json)))

\* Variant: only the name is required.
form_rejected_nameOnly(name, phone) == ~IsTruthy(name)

\* render_booking_form: `if not name or not phone'.
form_rejected(name, phone) == ~IsTruthy(name) \/ ~IsTruthy(phone)

\* render_booking_form with the form submitted: the file afterwards, the
\* booking id it computed (NoBookingId when it computed none) and whether it
\* called save_bookings.
render_booking_form(file, day, name, phone, tickets, notes, http) ==
    IF form_rejected(name, phone)
    THEN [file |-> file, booking_id |-> NoBookingId, saved |-> FALSE]
    ELSE [file |-> SubmittedFile(file, day, name, phone, tickets, notes, http),
          booking_id |-> get_next_booking_id(load_bookings(file), day),
          saved |-> TRUE]

\* The exchange a submission may see: a rejected form issues no request.
SubmitExchanges(name, phone) ==
    IF form_rejected(name, phone) THEN {NotFetched} ELSE CreateOutcomes(PiName[issued + 1])

\* The visitor presses the submit button of the booking form; the store holds
\* at most cap rows.
SubmitUpTo(cap, name, phone, tickets, http) ==
    IF form_rejected(name, phone)
    THEN /\ http \in SubmitExchanges(name, phone)
         /\ UNCHANGED <<store, today, issued>>
    ELSE /\ Len(store) < cap
         /\ http \in SubmitExchanges(name, phone)
         /\ store' = render_booking_form(store, today, name, phone, tickets, "", http).file
         /\ issued' = IF ~http.raised /\ http.code < 400 /\ http.json.id # Missing
                      THEN issued + 1 ELSE issued
         /\ UNCHANGED today

SubmitBooking(name, phone, tickets, http) ==
    SubmitUpTo(MaxBookings, name, phone, tickets, http)

\* Dashboard: the "Sync payment status from Ziina" button.
SyncAll(https) ==
    LET df == load_bookings(store)
    IN /\ Len(df) > 0
       /\ Len(https) = Len(df)
       /\ \A i \in 1..Len(df) : https[i] \in RowExchanges(df[i])
       /\ store' = SyncedFile(store, df, https)
       /\ UNCHANGED <<today, issued>>

\* Index of the first row whose payment_intent_id, as a string, is pi_id; 0 if none.
FirstMatch(df, pi_id) ==
    LET hits == {i \in 1..Len(df) : Str(df[i].payment_intent_id) = Str(pi_id)}
    IN IF hits = {} THEN 0 ELSE CHOOSE i \in hits : \A j \in hits : i <= j

\* Variant: the reconciled row is added to the frame instead of replacing the
\* row it was read from.
PaymentResultFile_append(file, result, pi_id, http) ==
    LET df == load_bookings(file)
        idx == FirstMatch(df, pi_id)
        pi == get_payment_intent(pi_id, http)
        pi_status == DictGet(pi.json, "status", NoneVal)
        row1 == [df[idx] EXCEPT !.payment_status = pi_status]
        row2 == IF pi_status = "completed" THEN [row1 EXCEPT !.status = "paid"]
                ELSE IF pi_status \in {"failed", "canceled"}
                     THEN [row1 EXCEPT !.status = "cancelled"]
                ELSE row1
    IN IF IsTruthy(pi_id) /\ ResultTruthy(pi) /\ idx # 0
       THEN save_bookings(Append(df, row2))
       ELSE file

\* Variant: the booking is made paid when the visitor comes back with
\* result=success, whatever the provider reports.
PaymentResultFile_trustresult(file, result, pi_id, http) ==
    LET df == load_bookings(file)
        idx == FirstMatch(df, pi_id)
        pi == get_payment_intent(pi_id, http)
        pi_status == DictGet(pi.json, "status", NoneVal)
        row1 == [df[idx] EXCEPT !.payment_status = pi_status]
        row2 == IF pi_status = "completed" \/ result = "success"
                THEN [row1 EXCEPT !.status = "paid"]
                ELSE IF pi_status \in {"failed", "canceled"}
                     THEN [row1 EXCEPT !.status = "cancelled"]
                ELSE row1
    IN IF IsTruthy(pi_id) /\ ResultTruthy(pi) /\ idx # 0
       THEN save_bookings([df EXCEPT ![idx] = row2])
       ELSE file

\* Variant: the remote status canceled is not mapped.
PaymentResultFile_nocanceled(file, result, pi_id, http) ==
    LET df == load_bookings(file)
        idx == FirstMatch(df, pi_id)
        pi == get_payment_intent(pi_id, http)
        pi_status == DictGet(pi.json, "status", NoneVal)
        row1 == [df[idx] EXCEPT !.payment_status = pi_status]
        row2 == IF pi_status = "completed" THEN [row1 EXCEPT !.status = "paid"]
                ELSE IF pi_status \in {"failed"}
                     THEN [row1 EXCEPT !.status = "cancelled"]
                ELSE row1
    IN IF IsTruthy(pi_id) /\ ResultTruthy(pi) /\ idx # 0
       THEN save_bookings([df EXCEPT ![idx] = row2])
       ELSE file

\* render_payment_result(result, pi_id): the file afterwards.
PaymentResultFile(file, result, pi_id, http) ==
    LET df == load_bookings(file)
        idx == FirstMatch(df, pi_id)
        pi == get_payment_intent(pi_id, http)
        pi_status == DictGet(pi.json, "status", NoneVal)
        row1 == [df[idx] EXCEPT !.payment_status = pi_status]
        row2 == IF pi_status = "completed" THEN [row1 EXCEPT !.status = "paid"]
                ELSE IF pi_status \in {"failed", "canceled"}
                     THEN [row1 EXCEPT !.status = "cancelled"]
                ELSE row1
    IN IF IsTruthy(pi_id) /\ ResultTruthy(pi) /\ idx # 0
       THEN save_bookings([df EXCEPT ![idx] = row2])
       ELSE file

\* The values of a query parameter: NoneVal when the URL does not carry it,
\* "" when it carries it without a value.
ResultParams == {NoneVal, "", "success"}

PiIdParams == IssuedIds \cup {NoneVal, "", "nan"}

\* Variant: the payment result is shown whenever pi_id is given.
main_shows_result_piOnly(result_param, pi_id_param) == IsTruthy(pi_id_param)

\* main: `if result_param and pi_id_param'.
main_shows_result(result_param, pi_id_param) ==
    IsTruthy(result_param) /\ IsTruthy(pi_id_param)

\* The exchange a page load may see: the payment-result view issues one
\* request, any other page load none.
PageExchanges(result, pi_id) ==
    IF main_shows_result(result, pi_id) /\ IsTruthy(pi_id)
    THEN GetOutcomes(pi_id) ELSE {NotFetched}

\* main with the query parameters result and pi_id: the file afterwards.
PageLoadFile(file, result, pi_id, http) ==
    IF main_shows_result(result, pi_id)
    THEN PaymentResultFile(file, result, pi_id, http)
    ELSE file

\* main: a page load with the query parameters result and pi_id.
PageLoad(result, pi_id, http) ==
    /\ http \in PageExchanges(result, pi_id)
    /\ store' = PageLoadFile(store, result, pi_id, http)
    /\ UNCHANGED <<today, issued>>

BookingStatuses == {"pending", "paid", "cancelled"}

\* Variant: the new status is written to payment_status as well.
OverriddenFile_mirror(file, selected_id, new_status) ==
    LET df == load_bookings(file)
    IN save_bookings([i \in 1..Len(df) |->
           IF df[i].booking_id = selected_id
           THEN [df[i] EXCEPT !.status = new_status, !.payment_status = new_status]
           ELSE df[i]])

\* Dashboard: "Save status" with the selected booking and the new status.
OverriddenFile(file, selected_id, new_status) ==
    LET df == load_bookings(file)
    IN save_bookings([i \in 1..Len(df) |->
           IF df[i].booking_id = selected_id
           THEN [df[i] EXCEPT !.status = new_status] ELSE df[i]])

AdminOverride(selected_id, new_status) ==
    /\ Len(store) > 0
    /\ selected_id \in {store[i].booking_id : i \in 1..Len(store)}
    /\ store' = OverriddenFile(store, selected_id, new_status)
    /\ UNCHANGED <<today, issued>>

Names == {"", "Aisha"}

Phones == {"", "+971 50 000 0000"}

AllBookingIds == {store[i].booking_id : i \in 1..Len(store)}

Next ==
    \/ Tick
    \/ \E name \in Names, phone \in Phones, tickets \in TicketChoices :
           \E http \in SubmitExchanges(name, phone) :
               SubmitBooking(name, phone, tickets, http)
    \/ \E https \in SyncExchanges(load_bookings(store)) : SyncAll(https)
    \/ \E result \in ResultParams, pi_id \in PiIdParams :
           \E http \in PageExchanges(result, pi_id) :
               PageLoad(result, pi_id, http)
    \/ \E selected_id \in AllBookingIds, new_status \in BookingStatuses :
           AdminOverride(selected_id, new_status)

Spec == Init /\ [][Next]_vars

(***************************************************************************)
(* The program without the administrator's manual override: submissions,   *)
(* the sync over all bookings and page loads.                              *)
(***************************************************************************)
NextAuto ==
    \/ Tick
    \/ \E name \in Names, phone \in Phones, tickets \in TicketChoices :
           \E http \in SubmitExchanges(name, phone) :
               SubmitBooking(name, phone, tickets, http)
    \/ \E https \in SyncExchanges(load_bookings(store)) : SyncAll(https)
    \/ \E result \in ResultParams, pi_id \in PiIdParams :
           \E http \in PageExchanges(result, pi_id) :
               PageLoad(result, pi_id, http)

SpecAuto == Init /\ [][NextAuto]_vars

(***************************************************************************)
(* The booking form on its own: submissions, each run to completion, and   *)
(* changes of the date.                                                    *)
(***************************************************************************)
FormSubmit(name, phone, tickets, http) ==
    SubmitUpTo(MaxForm, name, phone, tickets, http)

NextForm ==
    \/ Tick
    \/ \E name \in Names, phone \in Phones, tickets \in TicketChoices :
           \E http \in SubmitExchanges(name, phone) :
               FormSubmit(name, phone, tickets, http)

SpecForm == Init /\ [][NextForm]_vars

(***************************************************************************)
(* Record sets for get_next_booking_id on its own: the rows of the file    *)
(* carry any ids, in any order (the file can be edited outside the         *)
(* program); suffix character 10 stands for a letter.                      *)
(***************************************************************************)
SuffixChoices == {<<0, 0, 1>>, <<0, 0, 2>>, <<0, 0, 3>>, <<0, 0, 10>>}

PlainRow(id) ==
    [ booking_id |-> id, created_at |-> id.date, name |-> "Aisha",
      phone |-> "+971 50 000 0000", tickets |-> 1, ticket_price |-> TICKET_PRICE,
      total_amount |-> TICKET_PRICE, status |-> "pending", payment_intent_id |-> "",
      payment_status |-> "error", redirect_url |-> "", notes |-> "" ]

IdChoices == {BookingId(d, sfx) : d \in 1..MaxDay, sfx \in SuffixChoices}

RECURSIVE RowSeqs(_)
RowSeqs(n) ==
    IF n = 0 THEN {<<>>}
    ELSE LET shorter == RowSeqs(n - 1)
         IN shorter \cup {Append(q, PlainRow(id)) : q \in {x \in shorter : Len(x) = n - 1},
                                                   id \in IdChoices}

InitIds ==
    /\ store \in RowSeqs(MaxRows)
    /\ today \in 1..MaxDay
    /\ issued = 0

NextIds ==
    \/ Tick
    \/ \E name \in Names, phone \in Phones, tickets \in TicketChoices :
           \E http \in SubmitExchanges(name, phone) :
               SubmitBooking(name, phone, tickets, http)

SpecIds == InitIds /\ [][NextIds]_vars

(***************************************************************************)
(* The booking form used on a file that was edited outside the program:    *)
(* the record sets of InitIds, and submissions up to MaxForm rows.         *)
(***************************************************************************)
NextEdited ==
    \/ Tick
    \/ \E name \in Names, phone \in Phones, tickets \in TicketChoices :
           \E http \in SubmitExchanges(name, phone) :
               FormSubmit(name, phone, tickets, http)

SpecEdited == InitIds /\ [][NextEdited]_vars

(***************************************************************************)
(* load_bookings on its own, against any content of the path of the       *)
(* bookings file.  In this specification `store' is a record: disk is what *)
(* is found at the path, before is what was found there when the last     *)
(* call of load_bookings began, df is the outcome of that call.            *)
(***************************************************************************)
NotLoaded == [kind |-> "none", columns |-> <<>>, rows |-> <<>>]

NoFrame == [raised |-> FALSE, columns |-> <<>>, rows |-> <<>>]

\* A workbook that was not written by the program.
ForeignWorkbook == Workbook(<<"booking_id", "name">>, <<>>)

DiskChoices ==
    {NoFile, Garbage, ForeignWorkbook} \cup {Workbook(COLUMNS, r) : r \in RowSeqs(MaxRows)}

InitFile ==
    /\ store \in {[disk |-> d, before |-> NotLoaded, df |-> NoFrame] : d \in DiskChoices}
    /\ today = 1
    /\ issued = 0

\* An interaction calls load_bookings.
LoadInteraction ==
    /\ store' = [disk |-> load_bookings_from(store.disk).disk,
                 before |-> store.disk,
                 df |-> load_bookings_from(store.disk).df]
    /\ UNCHANGED <<today, issued>>

NextFile == LoadInteraction

SpecFile == InitFile /\ [][NextFile]_vars

(***************************************************************************)
(* The dashboard page (dashboard.py), a script that runs from its top on   *)
(* every interaction of a browser session.  In this specification `store'  *)
(* is a record: file is the content of bookings.xlsx, logged_in[s] is      *)
(* st.session_state["dashboard_logged_in"] of session s, listed[s] tells   *)
(* whether the last run of s reached the listing of the bookings.          *)
(***************************************************************************)
MaxDash == 1       \* rows the file may hold when the dashboard is explored

ADMIN_PASSWORD == "snowadmin123"

Sessions == {"A", "B"}

\* What a run is started by: opening the page, or one of the three buttons.
\* The event of a button is delivered to the script whether or not the
\* previous run drew the button.
DashEvents == {"open", "login", "sync", "save"}

Codes == {"", "1234", "snowadmin123"}

\* Variant: the st.stop() that ends the run of a session not logged in is
\* missing.
dashboard_nostop(file, logged_in, event, code, selected_id, new_status, https) ==
    LET df == load_bookings(file)
        now_in == logged_in \/ (event = "login" /\ code = ADMIN_PASSWORD)
    IN IF Len(df) = 0
       THEN [file |-> file, logged_in |-> now_in, listed |-> FALSE]
       ELSE IF event = "sync"
            THEN [file |-> SyncedFile(file, df, https), logged_in |-> now_in,
                  listed |-> TRUE]
       ELSE IF event = "save"
            THEN [file |-> OverriddenFile(file, selected_id, new_status),
                  logged_in |-> now_in, listed |-> TRUE]
       ELSE [file |-> file, logged_in |-> now_in, listed |-> TRUE]

\* One run of dashboard.py: the file and the session's dashboard_logged_in
\* afterwards, and whether the run listed the bookings.
dashboard(file, logged_in, event, code, selected_id, new_status, https) ==
    LET df == load_bookings(file)
    IN IF ~logged_in
       THEN [file |-> file,
             logged_in |-> (event = "login" /\ code = ADMIN_PASSWORD),
             listed |-> FALSE]
       ELSE IF Len(df) = 0
            THEN [file |-> file, logged_in |-> TRUE, listed |-> FALSE]
       ELSE IF event = "sync"
            THEN [file |-> SyncedFile(file, df, https), logged_in |-> TRUE,
                  listed |-> TRUE]
       ELSE IF event = "save"
            THEN [file |-> OverriddenFile(file, selected_id, new_status),
                  logged_in |-> TRUE, listed |-> TRUE]
       ELSE [file |-> file, logged_in |-> TRUE, listed |-> TRUE]

\* Whether a run gets as far as the sync button with the button pressed.
dashboard_syncs(file, logged_in, event) ==
    logged_in /\ Len(load_bookings(file)) > 0 /\ event = "sync"

\* The exchanges a run may see, one per row when it syncs, none otherwise.
DashExchanges(file, logged_in, event) ==
    IF dashboard_syncs(file, logged_in, event)
    THEN SyncExchanges(load_bookings(file))
    ELSE {<<>>}

FileIds(file) == {file[i].booking_id : i \in 1..Len(file)}

InitDash ==
    /\ store = [file |-> <<>>,
                logged_in |-> [s \in Sessions |-> FALSE],
                listed |-> [s \in Sessions |-> FALSE]]
    /\ today = 1
    /\ issued = 0

DashRun(s, event, code, selected_id, new_status, https) ==
    LET run == dashboard(store.file, store.logged_in[s], event, code,
                         selected_id, new_status, https)
    IN /\ https \in DashExchanges(store.file, store.logged_in[s], event)
       /\ store' = [file |-> run.file,
                    logged_in |-> [store.logged_in EXCEPT ![s] = run.logged_in],
                    listed |-> [store.listed EXCEPT ![s] = run.listed]]
       /\ UNCHANGED <<today, issued>>

\* A visitor submits the booking form of the app while the dashboard is in use.
DashSubmit(name, phone, tickets, http) ==
    /\ ~form_rejected(name, phone)
    /\ Len(store.file) < MaxDash
    /\ http \in SubmitExchanges(name, phone)
    /\ store' = [store EXCEPT
                     !.file = render_booking_form(store.file, today, name, phone,
                                                  tickets, "", http).file]
    /\ issued' = IF ~http.raised /\ http.code < 400 /\ http.json.id # Missing
                 THEN issued + 1 ELSE issued
    /\ UNCHANGED today

NextDash ==
    \/ Tick
    \/ \E name \in (Names \ {""}), phone \in (Phones \ {""}) :
           \E http \in SubmitExchanges(name, phone) :
               DashSubmit(name, phone, MIN_TICKETS, http)
    \/ \E s \in Sessions : DashRun(s, "open", "", NoBookingId, "pending", <<>>)
    \/ \E s \in Sessions, code \in Codes :
           DashRun(s, "login", code, NoBookingId, "pending", <<>>)
    \/ \E s \in Sessions :
           \E https \in DashExchanges(store.file, store.logged_in[s], "sync") :
               DashRun(s, "sync", "", NoBookingId, "pending", https)
    \/ \E s \in Sessions, selected_id \in FileIds(store.file) \cup {NoBookingId},
          new_status \in BookingStatuses :
           DashRun(s, "save", "", selected_id, new_status, <<>>)

SpecDash == InitDash /\ [][NextDash]_vars

(***************************************************************************)
(* The settings gate of the visitor app: the gear button, the PIN prompt   *)
(* and the settings panel of main, run from the top on every interaction   *)
(* of a session.  In this specification `store' is a record: admin_pin is  *)
(* security.admin_pin of data/ui_config.json; unlocked[s], visible[s] and  *)
(* prompt[s] are settings_unlocked, settings_panel_visible and             *)
(* show_pin_prompt of session s; rendered[s] tells whether the last run of *)
(* s rendered the settings panel; entered[s] whether s has ever submitted  *)
(* a PIN equal to the admin PIN of the time.                               *)
(***************************************************************************)
DEFAULT_PIN == "1234"

\* The values security.admin_pin can be given in the panel.
ConfigPins == {"", "1234", "9999"}

\* The values typed into the PIN prompt.
PinInputs == {"", "1234", "9999"}

\* What a run is started by: opening the page, the gear button, the Unlock
\* button of the PIN form, a changed value in the panel, or "Lock settings".
SettingsEvents == {"open", "gear", "pin", "edit", "lock"}

\* get_admin_pin(config) of a deployment without a PIN in st.secrets.
get_admin_pin(admin_pin) == IF IsTruthy(admin_pin) THEN admin_pin ELSE DEFAULT_PIN

\* Variant: the panel is rendered whenever it is visible.
settings_run_anyvisible(sess, admin_pin, event, pin_value, new_pin) ==
    LET visible1 == IF event = "gear"
                    THEN (IF sess.unlocked THEN ~sess.visible ELSE TRUE)
                    ELSE sess.visible
        prompt1 == IF event = "gear" /\ ~sess.unlocked THEN TRUE ELSE sess.prompt
        in_panel == visible1
        in_prompt == visible1 /\ ~sess.unlocked
        pin_ok == in_prompt /\ event = "pin" /\ pin_value = get_admin_pin(admin_pin)
        locked == in_panel /\ event = "lock"
        edited == in_panel /\ event = "edit" /\ new_pin # admin_pin
    IN [unlocked |-> IF pin_ok THEN TRUE ELSE IF locked THEN FALSE ELSE sess.unlocked,
        visible |-> IF locked THEN FALSE ELSE visible1,
        prompt |-> IF pin_ok THEN FALSE ELSE prompt1,
        admin_pin |-> IF edited THEN new_pin ELSE admin_pin,
        rendered |-> in_panel]

\* One run of main as far as the settings are concerned: render_admin_toggle,
\* then render_settings_panel or render_pin_prompt when the panel is visible.
settings_run(sess, admin_pin, event, pin_value, new_pin) ==
    LET visible1 == IF event = "gear"
                    THEN (IF sess.unlocked THEN ~sess.visible ELSE TRUE)
                    ELSE sess.visible
        prompt1 == IF event = "gear" /\ ~sess.unlocked THEN TRUE ELSE sess.prompt
        in_panel == visible1 /\ sess.unlocked
        in_prompt == visible1 /\ ~sess.unlocked
        pin_ok == in_prompt /\ event = "pin" /\ pin_value = get_admin_pin(admin_pin)
        locked == in_panel /\ event = "lock"
        edited == in_panel /\ event = "edit" /\ new_pin # admin_pin
    IN [unlocked |-> IF pin_ok THEN TRUE ELSE IF locked THEN FALSE ELSE sess.unlocked,
        visible |-> IF locked THEN FALSE ELSE visible1,
        prompt |-> IF pin_ok THEN FALSE ELSE prompt1,
        admin_pin |-> IF edited THEN new_pin ELSE admin_pin,
        rendered |-> in_panel]

\* The session state of s as a run of main finds it.
SessionOf(s) ==
    [unlocked |-> store.unlocked[s], visible |-> store.visible[s],
     prompt |-> store.prompt[s]]

\* init_state: the three flags of a new session are False.
InitSettings ==
    /\ store = [admin_pin |-> DEFAULT_PIN,
                unlocked |-> [s \in Sessions |-> FALSE],
                visible |-> [s \in Sessions |-> FALSE],
                prompt |-> [s \in Sessions |-> FALSE],
                rendered |-> [s \in Sessions |-> FALSE],
                entered |-> [s \in Sessions |-> FALSE]]
    /\ today = 1
    /\ issued = 0

SettingsRun(s, event, pin_value, new_pin) ==
    LET run == settings_run(SessionOf(s), store.admin_pin, event, pin_value, new_pin)
    IN /\ store' = [admin_pin |-> run.admin_pin,
                    unlocked |-> [store.unlocked EXCEPT ![s] = run.unlocked],
                    visible |-> [store.visible EXCEPT ![s] = run.visible],
                    prompt |-> [store.prompt EXCEPT ![s] = run.prompt],
                    rendered |-> [store.rendered EXCEPT ![s] = run.rendered],
                    entered |-> [store.entered EXCEPT ![s] =
                                    @ \/ (event = "pin"
                                            /\ pin_value = get_admin_pin(store.admin_pin))]]
       /\ UNCHANGED <<today, issued>>

NextSettings ==
    \/ \E s \in Sessions : SettingsRun(s, "open", "", store.admin_pin)
    \/ \E s \in Sessions : SettingsRun(s, "gear", "", store.admin_pin)
    \/ \E s \in Sessions, pin_value \in PinInputs :
           SettingsRun(s, "pin", pin_value, store.admin_pin)
    \/ \E s \in Sessions, new_pin \in ConfigPins : SettingsRun(s, "edit", "", new_pin)
    \/ \E s \in Sessions : SettingsRun(s, "lock", "", store.admin_pin)

SpecSettings == InitSettings /\ [][NextSettings]_vars

(***************************************************************************)
(* Interactions of two sessions running at the same time.  Streamlit runs  *)
(* the script of every session in a thread of its own, and nothing locks   *)
(* the workbook, so the load_bookings and the save_bookings of one         *)
(* interaction are two steps with the steps of the other session between   *)
(* them.  In this specification `store' is a record: file is the workbook; *)
(* kind[s] is the interaction session s is in the middle of ("idle" when   *)
(* none), loaded[s] the file its load_bookings read and day[s] the date of *)
(* that read; started counts the interactions begun; reported[s] is the     *)
(* booking id the last submission of s showed on its success page.         *)
(***************************************************************************)
MaxRace == 3

RaceKinds == {"submit", "sync", "result", "override"}

\* The visitor of each session types a name of their own.
RaceName == [s \in Sessions |-> IF s = "A" THEN "Aisha" ELSE "Badr"]

RacePhone == "+971 50 000 0000"

\* Variant: the booking id is computed from the file as it is when the frame
\* is saved.
SubmissionSave_freshid(disk, loaded, day, name, phone, tickets, notes, http) ==
    LET df == load_bookings(loaded)
        booking_id == get_next_booking_id(load_bookings(disk), day)
        pi_json == create_payment_intent(tickets * TICKET_PRICE, booking_id, name, http)
    IN save_bookings(Append(df, NewRow(booking_id, name, phone, tickets, notes, pi_json)))

\* Variant: the file is read again when the frame is saved.
SubmissionSave_reread(disk, loaded, day, name, phone, tickets, notes, http) ==
    SubmittedFile(disk, day, name, phone, tickets, notes, http)

\* render_booking_form from get_next_booking_id to save_bookings, for a run
\* whose load_bookings read `loaded' while the file is `disk' by now: the file
\* afterwards.
SubmissionSave(disk, loaded, day, name, phone, tickets, notes, http) ==
    SubmittedFile(loaded, day, name, phone, tickets, notes, http)

\* render_payment_result from the lookup of pi_id to save_bookings, for a run
\* whose load_bookings read `loaded': whether it saves, and the file afterwards.
ResultSaves(loaded, pi_id, http) ==
    /\ IsTruthy(pi_id)
    /\ ResultTruthy(get_payment_intent(pi_id, http))
    /\ FirstMatch(load_bookings(loaded), pi_id) # 0

ResultSave(disk, loaded, pi_id, http) ==
    IF ResultSaves(loaded, pi_id, http)
    THEN PaymentResultFile(loaded, "success", pi_id, http)
    ELSE disk

InitRace ==
    /\ store = [file |-> <<>>,
                kind |-> [s \in Sessions |-> "idle"],
                loaded |-> [s \in Sessions |-> <<>>],
                day |-> [s \in Sessions |-> 1],
                started |-> 0,
                reported |-> [s \in Sessions |-> NoBookingId]]
    /\ today = 1
    /\ issued = 0

\* Session s starts an interaction: its load_bookings reads the file.
RaceLoad(s, kind) ==
    /\ store.kind[s] = "idle"
    /\ store.started < MaxRace
    /\ IF kind = "submit" THEN Len(store.file) < MaxBookings ELSE Len(store.file) > 0
    /\ store' = [store EXCEPT !.kind[s] = kind,
                              !.loaded[s] = store.file,
                              !.day[s] = today,
                              !.started = @ + 1]
    /\ UNCHANGED <<today, issued>>

\* The interaction of s is over: the session is idle again.
Finished(s, file) ==
    [store EXCEPT !.file = file, !.kind[s] = "idle", !.loaded[s] = <<>>, !.day[s] = 1]

\* The submission of s creates its payment intent and saves its frame.
RaceSubmitSave(s, tickets, http) ==
    /\ store.kind[s] = "submit"
    /\ http \in CreateOutcomes(PiName[issued + 1])
    /\ store' = [Finished(s, SubmissionSave(store.file, store.loaded[s], store.day[s],
                                            RaceName[s], RacePhone, tickets, "", http))
                     EXCEPT !.reported[s] =
                         get_next_booking_id(load_bookings(store.loaded[s]), store.day[s])]
    /\ issued' = IF ~http.raised /\ http.code < 400 /\ http.json.id # Missing
                 THEN issued + 1 ELSE issued
    /\ UNCHANGED today

\* The dashboard run of s syncs the frame it loaded.
RaceSyncSave(s, https) ==
    /\ store.kind[s] = "sync"
    /\ https \in SyncExchanges(load_bookings(store.loaded[s]))
    /\ store' = Finished(s, SyncedFile(store.file, load_bookings(store.loaded[s]), https))
    /\ UNCHANGED <<today, issued>>

\* The payment-result page of s reconciles the booking of pi_id.
RaceResultSave(s, pi_id, http) ==
    /\ store.kind[s] = "result"
    /\ http \in GetOutcomes(pi_id)
    /\ store' = Finished(s, ResultSave(store.file, store.loaded[s], pi_id, http))
    /\ UNCHANGED <<today, issued>>

\* The dashboard run of s saves the frame it loaded with one status replaced.
RaceOverrideSave(s, selected_id, new_status) ==
    /\ store.kind[s] = "override"
    /\ selected_id \in FileIds(store.loaded[s])
    /\ store' = Finished(s, OverriddenFile(store.loaded[s], selected_id, new_status))
    /\ UNCHANGED <<today, issued>>

NextRace ==
    \/ Tick
    \/ \E s \in Sessions, kind \in RaceKinds : RaceLoad(s, kind)
    \/ \E s \in Sessions, tickets \in TicketChoices :
           \E http \in CreateOutcomes(PiName[issued + 1]) : RaceSubmitSave(s, tickets, http)
    \/ \E s \in Sessions :
           \E https \in SyncExchanges(load_bookings(store.loaded[s])) : RaceSyncSave(s, https)
    \/ \E s \in Sessions, pi_id \in IssuedIds :
           \E http \in GetOutcomes(pi_id) : RaceResultSave(s, pi_id, http)
    \/ \E s \in Sessions, new_status \in BookingStatuses :
           \E selected_id \in FileIds(store.loaded[s]) :
               RaceOverrideSave(s, selected_id, new_status)

SpecRace == InitRace /\ [][NextRace]_vars

(***************************************************************************)
(* Properties.                                                             *)
(***************************************************************************)
\* k written with at least three digits, for k below 1000.
Pad3(k) == <<k \div 100, (k \div 10) % 10, k % 10>>

\* The positions of the rows of f whose id carries the date d.
RowsOfDay(f, d) == {i \in 1..Len(f) : f[i].booking_id.date = d}

\* C1: in a store filled by submissions that each ran to completion, the k-th
\* booking of a date carries the id of that date with suffix k, zero-padded to
\* three digits; so ids are pairwise unique, increase in creation order and
\* have no gaps.
C1_SequentialIds ==
    /\ \A i \in 1..Len(store) :
           LET d == store[i].booking_id.date
               k == Cardinality({j \in RowsOfDay(store, d) : j <= i})
           IN store[i].booking_id.suffix = Pad3(k)
    /\ \A i, j \in 1..Len(store) :
           i < j => store[i].booking_id # store[j].booking_id

C1_Witness ==
    /\ Len(store) = 3
    /\ store[1].booking_id = BookingId(1, <<0, 0, 1>>)
    /\ store[2].booking_id = BookingId(1, <<0, 0, 2>>)
    /\ store[3].booking_id = BookingId(2, <<0, 0, 1>>)

\* The numeric value of a suffix of decimal digits, most significant first.
SuffixNumber(sfx) ==
    IF Len(sfx) = 3 THEN 100 * sfx[1] + 10 * sfx[2] + sfx[3] ELSE -1

AllDigits(sfx) == \A c \in 1..Len(sfx) : sfx[c] \in 0..9

TodaysNumeric(f) == \A i \in RowsOfDay(f, today) : AllDigits(f[i].booking_id.suffix)

MaxSuffixToday(f) ==
    LET nums == {SuffixNumber(f[i].booking_id.suffix) : i \in RowsOfDay(f, today)}
    IN CHOOSE m \in nums : \A n \in nums : n <= m

LastOfToday(f) ==
    CHOOSE i \in RowsOfDay(f, today) : \A j \in RowsOfDay(f, today) : j <= i

TodaysAscending(f) ==
    \A i, j \in RowsOfDay(f, today) :
        i < j => SuffixNumber(f[i].booking_id.suffix) <= SuffixNumber(f[j].booking_id.suffix)

\* C2 as stated: for every record set whose rows of today have numeric
\* suffixes, get_next_booking_id returns today's prefix followed by the
\* maximum suffix of today's rows plus one, padded to three digits, and 001
\* when no row carries today's prefix.
C2_MaxSuffixPlusOne ==
    TodaysNumeric(store) =>
        get_next_booking_id(load_bookings(store), today) =
            IF RowsOfDay(store, today) = {} THEN BookingId(today, <<0, 0, 1>>)
            ELSE BookingId(today, Pad3(MaxSuffixToday(store) + 1))

\* C2 amended: the id is today's prefix followed by the suffix of the LAST
\* row of today plus one (001 when there is none); this is the maximum plus
\* one whenever today's rows are stored in ascending order of suffix.
C2_LastSuffixPlusOne ==
    /\ RowsOfDay(store, today) = {} =>
           get_next_booking_id(load_bookings(store), today) = BookingId(today, <<0, 0, 1>>)
    /\ ( /\ RowsOfDay(store, today) # {}
         /\ AllDigits(store[LastOfToday(store)].booking_id.suffix) ) =>
           get_next_booking_id(load_bookings(store), today) =
               BookingId(today,
                   Pad3(SuffixNumber(store[LastOfToday(store)].booking_id.suffix) + 1))
    /\ ( /\ RowsOfDay(store, today) # {}
         /\ TodaysNumeric(store)
         /\ TodaysAscending(store) ) =>
           get_next_booking_id(load_bookings(store), today) =
               BookingId(today, Pad3(MaxSuffixToday(store) + 1))

C2_Witness ==
    /\ Len(store) = 3
    /\ RowsOfDay(store, today) = {1, 3}
    /\ store[1].booking_id.suffix = <<0, 0, 1>>
    /\ store[2].booking_id.suffix = <<0, 0, 3>>
    /\ store[3].booking_id.suffix = <<0, 0, 2>>
    /\ get_next_booking_id(load_bookings(store), today) = BookingId(today, <<0, 0, 3>>)

\* Every stored booking has total_amount = tickets * ticket_price.
C3_AmountInv ==
    \A i \in 1..Len(store) :
        store[i].total_amount = store[i].tickets * store[i].ticket_price

\* A step leaves tickets, ticket_price and total_amount of the stored bookings alone.
C3_AmountFrame ==
    \A i \in 1..Len(store) :
        /\ i <= Len(store')
        /\ store'[i].tickets = store[i].tickets
        /\ store'[i].ticket_price = store[i].ticket_price
        /\ store'[i].total_amount = store[i].total_amount

\* C3: total_amount = tickets * ticket_price holds of every stored booking in
\* every reachable state, and every step leaves the three fields of the stored
\* bookings as they were.
C3_TotalAmount == []C3_AmountInv /\ [][C3_AmountFrame]_vars

C3_Witness ==
    /\ Len(store) = 2
    /\ store[1].tickets = MAX_TICKETS
    /\ store[1].total_amount = 3500
    /\ store[1].status = "paid"
    /\ store[1].payment_status = "completed"
    /\ store[2].tickets = MIN_TICKETS
    /\ store[2].total_amount = 175

Terminal == {"paid", "cancelled"}

\* C4 as stated: no step takes the status of a stored booking from paid or
\* cancelled back to pending.
C4_NeverBackToPending ==
    [][\A i \in 1..Len(store) :
           (store[i].status \in Terminal /\ i <= Len(store')) =>
               store'[i].status # "pending"]_vars

\* The non-empty pi_id values of a return-redirect.
RedirectPiIds == PiIdParams \ {"", NoneVal}

\* C4 amended: no run of the sync over all bookings and no single-record
\* reconciliation takes the status of a stored booking from paid or cancelled
\* back to pending (the manual override can).
C4_SyncNeverBackToPending ==
    /\ \A https \in SyncExchanges(load_bookings(store)) :
           LET f == SyncedFile(store, load_bookings(store), https)
           IN \A i \in 1..Len(store) :
                  store[i].status \in Terminal => f[i].status # "pending"
    /\ \A pi_id \in RedirectPiIds :
           \A http \in GetOutcomes(pi_id) :
               LET f == PaymentResultFile(store, "success", pi_id, http)
               IN \A i \in 1..Len(store) :
                      store[i].status \in Terminal => f[i].status # "pending"

C4_Witness ==
    \E i \in 1..Len(store) :
        /\ store[i].status \in Terminal
        /\ store[i].payment_status = "pending"
        /\ store[i].payment_intent_id \in IssuedIds

\* The remote status an exchange delivers to the caller; NoneVal when the
\* request failed, was not made, or the response has no status.
Delivered(http) ==
    IF http.raised \/ http.code >= 400 \/ http.code < 0 \/ http.json.status = Missing
    THEN NoneVal
    ELSE http.json.status

\* The local status the mapping law prescribes.
Lawful(old, remote) ==
    IF remote = "completed" THEN "paid"
    ELSE IF remote \in {"failed", "canceled"} THEN "cancelled"
    ELSE old

\* C5: in the sync over all bookings and in the single-record reconciliation,
\* a fetch that returns completed makes the booking paid, one that returns
\* failed or canceled makes it cancelled, and any other remote status leaves
\* the local status as it was.
C5_MappingLaw ==
    /\ \A https \in SyncExchanges(load_bookings(store)) :
           LET f == SyncedFile(store, load_bookings(store), https)
           IN /\ Len(f) = Len(store)
              /\ \A i \in 1..Len(store) :
                     f[i].status = Lawful(store[i].status, Delivered(https[i]))
    /\ \A pi_id \in RedirectPiIds :
           \A http \in GetOutcomes(pi_id) :
               LET f == PaymentResultFile(store, "success", pi_id, http)
               IN /\ Len(f) = Len(store)
                  /\ \A i \in 1..Len(store) :
                         f[i].status =
                             IF store[i].payment_intent_id = pi_id
                             THEN Lawful(store[i].status, Delivered(http))
                             ELSE store[i].status

C5_Witness ==
    /\ Len(store) = 2
    /\ store[1].status = "paid" /\ store[1].payment_status = "completed"
    /\ store[2].status = "cancelled" /\ store[2].payment_status = "failed"

\* C6: no step changes the payment_intent_id of a stored booking.
C6_PaymentIdImmutable ==
    [][\A i \in 1..Len(store) :
           /\ i <= Len(store')
           /\ store'[i].payment_intent_id = store[i].payment_intent_id]_vars

C6_Witness ==
    /\ Len(store) = 2
    /\ store[1].payment_intent_id = "pi_1"
    /\ store[1].status = "cancelled"
    /\ store[2].payment_intent_id = ""

\* Whether the create call of an exchange returns the failure signal.
CreateFailed(http) == http.raised \/ http.code >= 400

\* The submissions that pass the form check.
FilledNames == Names \ {""}

FilledPhones == Phones \ {""}

\* C7 as stated: the booking a submission stores has an empty
\* payment_intent_id only when its create call returned the failure signal.
C7_EmptyOnlyOnFailure ==
    \A name \in FilledNames, phone \in FilledPhones, tickets \in TicketChoices :
        \A http \in SubmitExchanges(name, phone) :
            LET f == SubmittedFile(store, today, name, phone, tickets, "", http)
            IN f[Len(f)].payment_intent_id = "" => CreateFailed(http)

\* C7 amended: the booking a submission stores has an empty payment_intent_id
\* exactly when its create call returned the failure signal or a response
\* without an id; a response that carries an id has it stored.
C7_EmptyOnFailureOrNoId ==
    \A name \in FilledNames, phone \in FilledPhones, tickets \in TicketChoices :
        \A http \in SubmitExchanges(name, phone) :
            LET f == SubmittedFile(store, today, name, phone, tickets, "", http)
            IN /\ f[Len(f)].payment_intent_id = ""
                      <=> (CreateFailed(http) \/ http.json.id = Missing)
               /\ (~CreateFailed(http) /\ http.json.id # Missing)
                      => f[Len(f)].payment_intent_id = http.json.id

C7_Witness ==
    \E i \in 1..Len(store) :
        /\ store[i].payment_intent_id = ""
        /\ store[i].payment_status = "requires_payment_instrument"
        /\ store[i].redirect_url = RedirectUrl

\* C8: no step removes a booking: every stored booking stays at its place
\* with its id, and the store never gets shorter.
C8_NeverDeleted ==
    [][/\ Len(store') >= Len(store)
       /\ \A i \in 1..Len(store) :
              /\ store'[i].booking_id = store[i].booking_id
              /\ store'[i].created_at = store[i].created_at
              /\ store'[i].name = store[i].name
              /\ store'[i].phone = store[i].phone]_vars

C8_Witness ==
    /\ Len(store) = 2
    /\ store[1].booking_id = BookingId(1, <<0, 0, 1>>)
    /\ store[2].booking_id = BookingId(2, <<0, 0, 1>>)
    /\ store[1].status = "cancelled"
    /\ store[2].status = "paid"

\* C9: a submission with name and phone whose create call fails still stores
\* the booking, with status pending, no payment reference, payment_status
\* error and no redirect URL.
C9_FailedCreatePersists ==
    \A name \in FilledNames, phone \in FilledPhones, tickets \in TicketChoices :
        \A http \in SubmitExchanges(name, phone) :
            CreateFailed(http) =>
                LET f == SubmittedFile(store, today, name, phone, tickets, "", http)
                IN /\ Len(f) = Len(store) + 1
                   /\ f[Len(f)].status = "pending"
                   /\ f[Len(f)].payment_intent_id = ""
                   /\ f[Len(f)].payment_status = "error"
                   /\ f[Len(f)].redirect_url = ""
                   /\ f[Len(f)].name = name
                   /\ f[Len(f)].phone = phone
                   /\ f[Len(f)].tickets = tickets

C9_Witness ==
    /\ Len(store) = 2
    /\ store[2].status = "pending"
    /\ store[2].payment_intent_id = ""
    /\ store[2].payment_status = "error"
    /\ store[2].redirect_url = ""
    /\ store[1].payment_intent_id = "pi_1"

C11_SyncOneIdempotent ==
    \A pi_id \in RedirectPiIds :
        \A http \in GetOutcomes(pi_id) :
            LET once == PaymentResultFile(store, "success", pi_id, http)
                twice == PaymentResultFile(once, "success", pi_id, http)
            IN twice = once

\* A booking the reconciliation has written the remote status pending to,
\* next to a booking it has made paid.
C11_Witness ==
    /\ Len(store) = 2
    /\ store[1].payment_intent_id = "pi_1"
    /\ store[1].status = "pending"
    /\ store[1].payment_status = "pending"
    /\ store[2].payment_intent_id = "pi_2"
    /\ store[2].status = "paid"
    /\ store[2].payment_status = "completed"

\* C12: the sync over all bookings issues no request for a booking whose
\* payment_intent_id is empty, and leaves status and payment_status of a
\* booking as they were when its payment_intent_id is empty, when its fetch
\* fails, or when the response carries no status.
C12_SkipsWithoutFetch ==
    LET df == load_bookings(store)
    IN /\ \A i \in 1..Len(store) :
              store[i].payment_intent_id = "" => RowExchanges(df[i]) = {NotFetched}
       /\ \A https \in SyncExchanges(df) :
              LET f == SyncedFile(store, df, https)
              IN \A i \in 1..Len(store) :
                     (store[i].payment_intent_id = "" \/ Delivered(https[i]) = NoneVal)
                         => /\ f[i].status = store[i].status
                            /\ f[i].payment_status = store[i].payment_status

\* The part of C12 about what is left unchanged, without the part about
\* which bookings are fetched.
C12_UnchangedPart ==
    LET df == load_bookings(store)
    IN \A https \in SyncExchanges(df) :
           LET f == SyncedFile(store, df, https)
           IN \A i \in 1..Len(store) :
                  (store[i].payment_intent_id = "" \/ Delivered(https[i]) = NoneVal)
                      => /\ f[i].status = store[i].status
                         /\ f[i].payment_status = store[i].payment_status

\* C13: after a run of the sync over all bookings the file holds every change
\* the run made to the frame; in particular every booking whose fetch returned
\* a status has that status as its stored payment_status, also when the
\* status is none of completed, failed and canceled.
C13_PersistsEveryChange ==
    LET df == load_bookings(store)
    IN \A https \in SyncExchanges(df) :
           LET f == SyncedFile(store, df, https)
           IN /\ f = save_bookings(SyncedFrame(df, https))
              /\ \A i \in 1..Len(store) :
                     Delivered(https[i]) # NoneVal =>
                         f[i].payment_status = Delivered(https[i])

\* C14: the single-record reconciliation changes no booking but the one whose
\* payment_intent_id is pi_id, and for every remote outcome it leaves that
\* booking with the status and the payment_status the loop of the sync over
\* all bookings gives the same booking on the same outcome.
C14_SyncOneAsSyncAll ==
    LET df == load_bookings(store)
    IN \A pi_id \in RedirectPiIds :
           \A http \in GetOutcomes(pi_id) :
               LET f == PaymentResultFile(store, "success", pi_id, http)
               IN /\ Len(f) = Len(store)
                  /\ \A i \in 1..Len(store) :
                         IF store[i].payment_intent_id = pi_id
                         THEN LET r == WriteRow(SyncRow(df[i], http))
                              IN /\ f[i].status = r.status
                                 /\ f[i].payment_status = r.payment_status
                         ELSE f[i] = store[i]

\* C15: once the status of a booking is paid or cancelled, no run of the sync
\* over all bookings and no single-record reconciliation changes that status,
\* whatever the provider answers.
C15_TerminalIsFinal ==
    /\ \A https \in SyncExchanges(load_bookings(store)) :
           LET f == SyncedFile(store, load_bookings(store), https)
           IN \A i \in 1..Len(store) :
                  store[i].status \in Terminal => f[i].status = store[i].status
    /\ \A pi_id \in RedirectPiIds :
           \A http \in GetOutcomes(pi_id) :
               LET f == PaymentResultFile(store, "success", pi_id, http)
               IN \A i \in 1..Len(store) :
                      store[i].status \in Terminal => f[i].status = store[i].status

\* HTTP status codes on both sides of the limit 400, and response bodies.
SampleCodes == {200, 201, 399, 400, 404, 500}

SampleBodies ==
    {EmptyDict, ErrorBody,
     [EmptyDict EXCEPT !.id = "pi_1", !.redirect_url = RedirectUrl, !.status = "completed"]}

SampleExchanges ==
    {HttpRaised} \cup {HttpResponse(c, b) : c \in SampleCodes, b \in SampleBodies}

\* What the provider would answer to a first and to a second request.
SampleAnswers == {<<a, b>> : a \in SampleExchanges, b \in SampleExchanges}

\* What the contract prescribes for a call whose only request ends in http.
Contracted(http) ==
    IF http.raised \/ http.code >= 400 THEN PyNone ELSE PyJson(http.json)

\* C16: a call of create_payment_intent or of get_payment_intent issues at
\* most one request and what it returns is decided by that request alone:
\* the failure signal None when the request raises or its status code is 400
\* or more, the JSON body of the response for every status code below 400.
C16_SingleAttempt ==
    \A answers \in SampleAnswers :
        LET c == create_payment_intent_call(175, BookingId(today, <<0, 0, 1>>),
                                           "Aisha", answers)
            g == get_payment_intent_call("pi_1", answers)
        IN /\ c.requests <= 1
           /\ g.requests <= 1
           /\ c.returned = Contracted(answers[1])
           /\ g.returned = Contracted(answers[1])

\* A booking whose create call returned the failure signal next to one whose
\* create call and whose later fetch returned a response.
C16_Witness ==
    /\ Len(store) = 2
    /\ store[1].payment_status = "error"
    /\ store[1].payment_intent_id = ""
    /\ store[2].payment_intent_id = "pi_1"
    /\ store[2].payment_status = "failed"
    /\ store[2].status = "cancelled"

\* C17: a call of load_bookings that finds no file creates the file as an
\* empty store and returns, without raising, an empty record set with exactly
\* the twelve columns; a call that finds a file leaves the file as it is.
C17_MissingFileCreated ==
    /\ store.before.kind = "absent" =>
           /\ ~store.df.raised
           /\ store.df.rows = <<>>
           /\ store.df.columns =
                  << "booking_id", "created_at", "name", "phone", "tickets",
                     "ticket_price", "total_amount", "status", "payment_intent_id",
                     "payment_status", "redirect_url", "notes" >>
           /\ Len(store.df.columns) = 12
           /\ store.disk.kind = "workbook"
           /\ store.disk.columns = store.df.columns
           /\ store.disk.rows = <<>>
    /\ store.before.kind \in {"workbook", "garbage"} => store.disk = store.before

C17_Witness ==
    /\ store.before = NoFile
    /\ store.disk.kind = "workbook"
    /\ store.df.columns = COLUMNS

\* C18: a call of load_bookings that finds a file that is not a readable
\* workbook fails with the error of the reader, returns no record set and
\* leaves the file as it was.
C18_CorruptFileFails ==
    store.before.kind = "garbage" =>
        /\ store.df = ReadRaised
        /\ store.disk = store.before

C18_Witness ==
    /\ store.before = Garbage
    /\ store.df.raised

\* C19 as stated: loading a malformed file recreates the store and returns an
\* empty record set, so that the interaction goes on.
C19_MalformedFallsBack ==
    store.before.kind = "garbage" =>
        /\ ~store.df.raised
        /\ store.df.rows = <<>>
        /\ store.disk = Workbook(COLUMNS, <<>>)

\* C19 amended: loading a malformed file raises the error of the reader, which
\* ends the interaction; no record set is returned, the file is not recreated,
\* and the next load of it raises again.
C19_MalformedEndsInteraction ==
    store.before.kind = "garbage" =>
        /\ store.df.raised
        /\ store.df.columns = <<>>
        /\ store.disk.kind = "garbage"
        /\ load_bookings_from(store.disk).df.raised
        /\ load_bookings_from(store.disk).disk.kind = "garbage"

C19_Witness ==
    /\ store.before.kind = "garbage"
    /\ store.disk.kind = "garbage"
    /\ store.df # NoFrame

\* C20: a page load shows the payment result and runs one single-record
\* reconciliation exactly when the query parameters result and pi_id are both
\* given and not empty; a page load with either missing issues no request to
\* the provider and leaves the file as it is.
C20_ResultViewIffBoth ==
    \A result \in ResultParams, pi_id \in PiIdParams :
        \A http \in PageExchanges(result, pi_id) :
            LET both == result \notin {NoneVal, ""} /\ pi_id \notin {NoneVal, ""}
                f == PageLoadFile(store, result, pi_id, http)
            IN /\ both => /\ http # NotFetched
                           /\ http \in GetOutcomes(pi_id)
                           /\ f = PaymentResultFile(store, result, pi_id, http)
               /\ ~both => /\ http = NotFetched
                            /\ f = store

\* A booking with a payment reference whose payment_status was emptied: only
\* the reconciliation of a page load writes that.
C20_Witness ==
    \E i \in 1..Len(store) :
        /\ store[i].payment_intent_id \in IssuedIds
        /\ store[i].payment_status = ""

\* Whether the last row of f that carries today's date has a suffix int()
\* cannot parse.
LastUnparseable(f) ==
    /\ RowsOfDay(f, today) # {}
    /\ ~AllDigits(f[LastOfToday(f)].booking_id.suffix)

\* C23: when the last record of today has a non-numeric suffix,
\* get_next_booking_id returns (it does not raise) today's prefix followed by
\* the number of today's records plus one, padded to three digits.
C23_FallbackCount ==
    LastUnparseable(store) =>
        get_next_booking_id(load_bookings(store), today) =
            BookingId(today, Pad3(Cardinality(RowsOfDay(store, today)) + 1))

\* A record with a letter in its suffix, followed by the record a submission
\* of the same day added.
C23_Witness ==
    /\ Len(store) = 2
    /\ store[1].booking_id = BookingId(today, <<0, 0, 10>>)
    /\ store[2].booking_id = BookingId(today, <<0, 0, 2>>)
    /\ store[2].payment_intent_id = "pi_1"

\* The id the count-based fallback yields is already the id of a stored record.
FallbackCollides(f) ==
    /\ LastUnparseable(f)
    /\ \E i \in RowsOfDay(f, today) :
           f[i].booking_id.suffix = Pad3(Cardinality(RowsOfDay(f, today)) + 1)

HasDuplicateOf(f, id) ==
    \E i, j \in 1..Len(f) : i < j /\ f[i].booking_id = id /\ f[j].booking_id = id

\* C24: in a store where the count-based fallback yields an id a record
\* already carries, get_next_booking_id returns that id and the submission
\* saves a second record with it; such a store is reachable (C24_Witness).
C24_FallbackCollision ==
    FallbackCollides(store) =>
        LET id == get_next_booking_id(load_bookings(store), today)
        IN /\ \E i \in 1..Len(store) : store[i].booking_id = id
           /\ \A name \in FilledNames, phone \in FilledPhones, tickets \in TicketChoices :
                  \A http \in SubmitExchanges(name, phone) :
                      HasDuplicateOf(
                          SubmittedFile(store, today, name, phone, tickets, "", http), id)

\* The store after such a submission: the record with suffix 003, the record
\* with the letter, and the submitted record, again with suffix 003.
C24_Witness ==
    /\ Len(store) = 3
    /\ store[1].booking_id = BookingId(today, <<0, 0, 3>>)
    /\ store[2].booking_id = BookingId(today, <<0, 0, 10>>)
    /\ store[3].booking_id = store[1].booking_id
    /\ store[3].payment_intent_id = "pi_1"

\* The values of result a return-redirect can carry, the provider's three and
\* one made up by the visitor.
RedirectResults == {"success", "cancel", "failure", "completed"}

\* C27: two return-redirect page loads from the same store, with the same
\* pi_id and the same answer of the provider, end in the same file whatever
\* their values of result; and no booking becomes paid by a page load unless
\* the provider reported completed.
C27_ResultNotStored ==
    \A pi_id \in RedirectPiIds :
        \A http \in GetOutcomes(pi_id) :
            /\ \A r1, r2 \in RedirectResults :
                   PageLoadFile(store, r1, pi_id, http) = PageLoadFile(store, r2, pi_id, http)
            /\ LET f == PageLoadFile(store, "success", pi_id, http)
               IN \A i \in 1..Len(store) :
                      (f[i].status = "paid" /\ store[i].status # "paid")
                          => Delivered(http) = "completed"

\* A single booking still pending after a page load that reconciled it with a
\* response without a status.
C27_Witness ==
    /\ Len(store) = 1
    /\ store[1].payment_intent_id = "pi_1"
    /\ store[1].status = "pending"
    /\ store[1].payment_status = ""

\* The local status agrees with the mirrored provider status.
Agrees(row) ==
    /\ row.payment_status = "completed" => row.status = "paid"
    /\ row.payment_status \in {"failed", "canceled"} => row.status = "cancelled"

\* The remote statuses the mapping gives a local status for.
Mapped == {"completed", "failed", "canceled"}

\* C28 as stated: without manual override, every stored booking with
\* payment_status completed has status paid and every stored booking with
\* payment_status failed or canceled has status cancelled.
C28_StatusAgrees == \A i \in 1..Len(store) : Agrees(store[i])

\* C28 amended: without manual override, a stored booking whose status and
\* payment_status disagree is a pending booking; the sync over all bookings
\* and the single-record reconciliation leave every booking in agreement
\* that was in agreement or for which the provider reported completed,
\* failed or canceled; and the booking a submission stores is in agreement
\* unless the create response itself carried one of these three statuses.
C28_AgreesOnceReconciled ==
    /\ \A i \in 1..Len(store) : Agrees(store[i]) \/ store[i].status = "pending"
    /\ \A https \in SyncExchanges(load_bookings(store)) :
           LET f == SyncedFile(store, load_bookings(store), https)
           IN \A i \in 1..Len(store) :
                  (Agrees(store[i]) \/ Delivered(https[i]) \in Mapped) => Agrees(f[i])
    /\ \A pi_id \in RedirectPiIds :
           \A http \in GetOutcomes(pi_id) :
               LET f == PaymentResultFile(store, "success", pi_id, http)
               IN \A i \in 1..Len(store) :
                      ( \/ Agrees(store[i])
                        \/ (store[i].payment_intent_id = pi_id /\ Delivered(http) \in Mapped) )
                          => Agrees(f[i])
    /\ \A name \in FilledNames, phone \in FilledPhones, tickets \in TicketChoices :
           \A http \in SubmitExchanges(name, phone) :
               LET f == SubmittedFile(store, today, name, phone, tickets, "", http)
               IN Agrees(f[Len(f)]) <=> (CreateFailed(http) \/ http.json.status \notin Mapped)

\* A booking stored with the status completed of its create response and
\* still pending, next to a booking the reconciliation has cancelled.
C28_Witness ==
    /\ Len(store) = 2
    /\ store[1].status = "cancelled"
    /\ store[1].payment_status = "canceled"
    /\ store[2].status = "pending"
    /\ store[2].payment_status = "completed"

C30_EmptyFieldRejected ==
    \A name \in Names, phone \in Phones, tickets \in TicketChoices :
        (name = "" \/ phone = "") =>
            /\ SubmitExchanges(name, phone) = {NotFetched}
            /\ \A http \in SubmitExchanges(name, phone) :
                   LET run == render_booking_form(store, today, name, phone, tickets, "", http)
                   IN /\ run.booking_id = NoBookingId
                      /\ ~run.saved
                      /\ run.file = store

\* A store that holds one booking, on the second day: the state a rejected
\* submission has to leave as it is.
C30_Witness ==
    /\ Len(store) = 1
    /\ today = 2
    /\ store[1].booking_id = BookingId(1, <<0, 0, 1>>)
    /\ store[1].payment_status = "error"

\* C21: a run of the dashboard in a session that is not logged in lists no
\* booking, issues no request of a sync and leaves the file as it is,
\* whatever button started it; it logs the session in exactly when it is a
\* login with the admin password; and a session whose last run listed the
\* bookings is logged in.
C21_DashboardGated ==
    \A s \in Sessions :
        /\ store.listed[s] => store.logged_in[s]
        /\ ~store.logged_in[s] =>
               \A event \in DashEvents, code \in Codes,
                  selected_id \in FileIds(store.file) \cup {NoBookingId},
                  new_status \in BookingStatuses :
                   /\ DashExchanges(store.file, FALSE, event) = {<<>>}
                   /\ LET run == dashboard(store.file, FALSE, event, code,
                                           selected_id, new_status, <<>>)
                      IN /\ ~run.listed
                         /\ run.file = store.file
                         /\ run.logged_in <=> (event = "login" /\ code = "snowadmin123")

\* Session A is logged in and has made the booking paid by hand; session B
\* is not logged in.
C21_Witness ==
    /\ store.logged_in["A"]
    /\ store.listed["A"]
    /\ ~store.logged_in["B"]
    /\ Len(store.file) = 1
    /\ store.file[1].status = "paid"
    /\ store.file[1].payment_status = "error"

\* The PIN a session has to submit, given security.admin_pin of the file.
ExpectedPin(admin_pin) == IF admin_pin = "" THEN "1234" ELSE admin_pin

\* C22: a run of main renders the settings panel, and rewrites the UI config,
\* only for a session whose settings_unlocked is true; settings_unlocked
\* starts false and becomes true only in a run that submits a PIN equal to
\* get_admin_pin(config); a wrong PIN leaves it false; Lock settings sets
\* settings_unlocked and settings_panel_visible to false.
C22_SettingsGated ==
    \A s \in Sessions :
        /\ store.unlocked[s] => store.entered[s]
        /\ store.rendered[s] => store.entered[s]
        /\ \A event \in SettingsEvents, pin_value \in PinInputs, new_pin \in ConfigPins :
               LET run == settings_run(SessionOf(s), store.admin_pin, event,
                                       pin_value, new_pin)
               IN /\ run.rendered => store.unlocked[s]
                  /\ run.admin_pin # store.admin_pin => store.unlocked[s]
                  /\ (run.unlocked /\ ~store.unlocked[s])
                         => (event = "pin" /\ pin_value = ExpectedPin(store.admin_pin))
                  /\ ( /\ ~store.unlocked[s]
                       /\ event = "pin"
                       /\ pin_value # ExpectedPin(store.admin_pin) ) => ~run.unlocked
                  /\ (store.unlocked[s] /\ store.visible[s] /\ event = "lock")
                         => (~run.unlocked /\ ~run.visible)

\* Session A has unlocked the settings and given the config a new PIN in the
\* panel; session B has opened the PIN prompt and is still locked.
C22_Witness ==
    /\ store.unlocked["A"]
    /\ store.rendered["A"]
    /\ store.admin_pin = "9999"
    /\ ~store.unlocked["B"]
    /\ store.prompt["B"]
    /\ store.visible["B"]

\* The booking id the pending submission of session s has computed.
PendingId(s) == get_next_booking_id(load_bookings(store.loaded[s]), store.day[s])

\* The booking ids of a file, row by row.
IdColumn(f) == [i \in 1..Len(f) |-> f[i].booking_id]

HoldsBooking(f, booking_id, name) ==
    \E i \in 1..Len(f) : f[i].booking_id = booking_id /\ f[i].name = name

\* The rows of the file that a submission has saved since session s loaded it.
SavedSince(s) ==
    {i \in 1..Len(store.file) :
        ~HoldsBooking(store.loaded[s], store.file[i].booking_id, store.file[i].name)}

\* The file is f without any of the bookings saved since session s loaded it.
Discards(s, f) ==
    \A i \in SavedSince(s) : ~HoldsBooking(f, store.file[i].booking_id, store.file[i].name)

\* C26: when a submission has saved its booking after an interaction has
\* loaded the bookings, the save_bookings of that interaction, be it a
\* submission, the sync of all bookings, the reconciliation of one booking or
\* the manual override, writes a file without that booking.
C26_LaterSaveDiscards ==
    \A s \in Sessions :
        LET df == load_bookings(store.loaded[s])
        IN /\ store.kind[s] = "submit" =>
                 \A tickets \in TicketChoices, http \in CreateOutcomes(PiName[issued + 1]) :
                     Discards(s, SubmissionSave(store.file, store.loaded[s], store.day[s],
                                                RaceName[s], RacePhone, tickets, "", http))
           /\ store.kind[s] = "sync" =>
                 \A https \in SyncExchanges(df) :
                     (\E i \in 1..Len(df) : RowSetsUpdated(df[i], https[i]))
                         => Discards(s, SyncedFile(store.file, df, https))
           /\ store.kind[s] = "result" =>
                 \A pi_id \in IssuedIds :
                     \A http \in GetOutcomes(pi_id) :
                         ResultSaves(store.loaded[s], pi_id, http)
                             => Discards(s, ResultSave(store.file, store.loaded[s], pi_id, http))
           /\ store.kind[s] = "override" =>
                 \A selected_id \in FileIds(store.loaded[s]), new_status \in BookingStatuses :
                     Discards(s, OverriddenFile(store.loaded[s], selected_id, new_status))

\* Session A has been shown the id of a booking that the file does not hold:
\* the dashboard run of session B, which had loaded the bookings before that
\* submission saved, has saved its frame with the earlier booking cancelled.
C26_Witness ==
    /\ store.kind["A"] = "idle"
    /\ store.kind["B"] = "idle"
    /\ store.reported["A"] # NoBookingId
    /\ ~HoldsBooking(store.file, store.reported["A"], RaceName["A"])
    /\ Len(store.file) = 1
    /\ store.file[1].name = RaceName["A"]
    /\ store.file[1].status = "cancelled"

====
